---------------------------- MODULE Spec2Model ----------------------------
(***************************************************************************)
(* A model of BestRAG (src/bestrag/best_rag.py): the text normalisation    *)
(* _clean_text, the construction of a BestRAG object against a Qdrant      *)
(* store, the page-by-page ingestion store_pdf_embeddings and the hybrid   *)
(* query search.  Strings are sequences of one-character strings.          *)
(***************************************************************************)
EXTENDS Integers, Sequences, FiniteSets, TLC

(***************************************************************************)
(* Bounds of the model.                                                    *)
(***************************************************************************)
\* longest input string given to _clean_text in SpecClean
MaxLen == 5

\* most pages a document handed to store_pdf_embeddings has
MaxPages == 3

\* most public operations (constructions, ingestions, searches) in one run
MaxOps == 2

\* the characters inputs are built from: a letter, a digit, '.', '_', and
\* the three whitespace characters space, tab and newline
Alphabet == {"a", "1", ".", "_", " ", "\t", "\n"}

(***************************************************************************)
(* _clean_text, best_rag.py lines 79-93.                                   *)
(***************************************************************************)
\* the characters of the alphabet that Python's \s and str.strip() treat as
\* whitespace
IsSpace(c) == c \in {" ", "\t", "\n"}

\* the characters of the alphabet that Python's \d matches
IsDigit(c) == c \in {"0", "1", "2", "3", "4", "5", "6", "7", "8", "9"}

\* line 89: re.sub(r'_+', '', text)
RemoveUnderscores(s) == SelectSeq(s, LAMBDA c : c # "_")

\* line 90: text.replace('\n', ' ')
ReplaceNewlines(s) == [i \in 1..Len(s) |-> IF s[i] = "\n" THEN " " ELSE s[i]]

\* the last index of the maximal run of whitespace that starts at i
RECURSIVE SpaceRunEnd(_, _)
SpaceRunEnd(s, i) ==
    IF i + 1 <= Len(s) /\ IsSpace(s[i + 1]) THEN SpaceRunEnd(s, i + 1) ELSE i

\* line 91, scanning from index i: a run of two or more whitespace
\* characters becomes one space, a lone whitespace character is kept as is
RECURSIVE CollapseFrom(_, _)
CollapseFrom(s, i) ==
    IF i > Len(s) THEN <<>>
    ELSE IF IsSpace(s[i]) /\ SpaceRunEnd(s, i) > i
         THEN <<" ">> \o CollapseFrom(s, SpaceRunEnd(s, i) + 1)
         ELSE <<s[i]>> \o CollapseFrom(s, i + 1)

\* a faulty variant of line 91: whitespace runs are left as they are
CollapseWhitespaceSkipped(s) == s

\* a faulty variant of line 91, the pattern \s\s: each pair of whitespace characters
\* becomes one space, so a run of three leaves two spaces
RECURSIVE CollapsePairsFrom(_, _)
CollapsePairsFrom(s, i) ==
    IF i > Len(s) THEN <<>>
    ELSE IF IsSpace(s[i]) /\ i + 1 <= Len(s) /\ IsSpace(s[i + 1])
         THEN <<" ">> \o CollapsePairsFrom(s, i + 2)
         ELSE <<s[i]>> \o CollapsePairsFrom(s, i + 1)

CollapsePairs(s) == CollapsePairsFrom(s, 1)

\* line 91: re.sub(r'\s{2,}', ' ', text)
CollapseWhitespace(s) == CollapseFrom(s, 1)

\* the last index of the maximal run of digits that starts at i
RECURSIVE DigitRunEnd(_, _)
DigitRunEnd(s, i) ==
    IF i + 1 <= Len(s) /\ IsDigit(s[i + 1]) THEN DigitRunEnd(s, i + 1) ELSE i

\* the index at which a match of (\d+\.)\s starting at i ends, or 0 when
\* there is none: \d+ is greedy and can give nothing back to '\.'
MatchEnd(s, i) ==
    IF ~IsDigit(s[i]) THEN 0
    ELSE LET j == DigitRunEnd(s, i)
         IN  IF j + 2 <= Len(s) /\ s[j + 1] = "." /\ IsSpace(s[j + 2])
             THEN j + 2 ELSE 0

\* line 92, scanning from index i: each leftmost non-overlapping match
\* "<digits>.<whitespace>" is rewritten to "\n<digits>. "
RECURSIVE NumberFrom(_, _)
NumberFrom(s, i) ==
    IF i > Len(s) THEN <<>>
    ELSE IF MatchEnd(s, i) # 0
         THEN <<"\n">> \o SubSeq(s, i, MatchEnd(s, i) - 1) \o <<" ">>
                  \o NumberFrom(s, MatchEnd(s, i) + 1)
         ELSE <<s[i]>> \o NumberFrom(s, i + 1)

\* a faulty variant of line 92: the match is rewritten without the line break
NumberItemsNoBreak(s) == s

\* line 92: re.sub(r'(\d+\.)\s', r'\n\1 ', text)
NumberItems(s) == NumberFrom(s, 1)

\* line 93: text.strip()
RECURSIVE Strip(_)
Strip(s) ==
    IF s # <<>> /\ IsSpace(s[1]) THEN Strip(Tail(s))
    ELSE IF s # <<>> /\ IsSpace(s[Len(s)]) THEN Strip(SubSeq(s, 1, Len(s) - 1))
    ELSE s

\* lines 89-93
clean_text(text) ==
    Strip(NumberItems(CollapseWhitespace(ReplaceNewlines(RemoveUnderscores(text)))))


(***************************************************************************)
(* The state of SpecClean: one call of _clean_text on an arbitrary string, *)
(* and a second call on its result.                                        *)
(***************************************************************************)
VARIABLES
    text,       \* the argument of the _clean_text call
    cleaned,    \* the value it returned
    recleaned,  \* the value _clean_text returned for cleaned
    phase       \* "input", "cleaned" (called once), "recleaned" (called on its own result)

(***************************************************************************)
(* The state of Spec: one caller driving BestRAG objects against a store.  *)
(***************************************************************************)
VARIABLES
    collections,  \* the store: names of the collections it holds
    points,       \* the store: the points persisted, each with its collection
    instances,    \* collection_name of every BestRAG object constructed
    pc,           \* the caller's position in the running method, "idle" between calls
    frame,        \* self and the locals of the running method
    pending,      \* the collaborator requests issued and not yet answered
    trace,        \* the collaborator requests and clean steps of the running (or last) call
    outcome,      \* how the last call ended: returned (with its value) or raised
    createCalls,  \* every create_collection request ever issued
    nextId,       \* uuid4: the number of ids generated so far
    ops           \* public operations started

cleanVars == <<text, cleaned, recleaned, phase>>
ragVars == <<collections, points, instances, pc, frame, pending, trace, outcome,
             createCalls, nextId, ops>>
vars == <<text, cleaned, recleaned, phase, collections, points, instances, pc, frame,
          pending, trace, outcome, createCalls, nextId, ops>>

\* all strings over Alphabet of length at most n
RECURSIVE Strings(_)
Strings(n) ==
    IF n = 0 THEN {<<>>}
    ELSE LET shorter == Strings(n - 1)
         IN  shorter \cup {Append(s, c) : s \in {t \in shorter : Len(t) = n - 1},
                                           c \in Alphabet}

\* the input of test_clean_text (test_best_rag.py line 39) and the value it
\* expects (line 40)
TestRawText ==
    <<"T", "h", "i", "s", " ", "i", "s", " ", "_", "a", "n", " ", "e", "x",
      "a", "m", "p", "l", "e", "_", " ", "t", "e", "x", "t", ".", "\n", "N",
      "e", "w", " ", "l", "i", "n", "e", " ", "w", "i", "t", "h", " ", " ",
      " ", " ", "m", "u", "l", "t", "i", "p", "l", "e", " ", "s", "p", "a",
      "c", "e", "s", ".">>
TestCleanedText ==
    <<"T", "h", "i", "s", " ", "i", "s", " ", "a", "n", " ", "e", "x", "a",
      "m", "p", "l", "e", " ", "t", "e", "x", "t", ".", " ", "N", "e", "w",
      " ", "l", "i", "n", "e", " ", "w", "i", "t", "h", " ", "m", "u", "l",
      "t", "i", "p", "l", "e", " ", "s", "p", "a", "c", "e", "s", ".">>

\* a numbered list on one line: "Intro 1. First 2. Second"
NumberedListText ==
    <<"I", "n", "t", "r", "o", " ", "1", ".", " ", "F", "i", "r", "s", "t",
      " ", "2", ".", " ", "S", "e", "c", "o", "n", "d">>

\* a heading with a two-level number: "Section 1.1. Intro"
SectionHeadingText ==
    <<"S", "e", "c", "t", "i", "o", "n", " ", "1", ".", "1", ".", " ", "I",
      "n", "t", "r", "o">>

\* inputs of _clean_text beyond the strings over Alphabet
SampleTexts == {TestRawText, NumberedListText, SectionHeadingText}

(***************************************************************************)
(* Inputs of the public operations.                                        *)
(***************************************************************************)
\* collection names given to the constructor
Names == {"docs", "notes"}

\* raw page texts the PDF reader yields, and query strings: "a_\nb" and "b 1. a"
RawTexts == {<<"a", "_", "\n", "b">>, <<"b", " ", "1", ".", " ", "a">>}

\* all sequences over S of length at most n
RECURSIVE SeqsUpTo(_, _)
SeqsUpTo(S, n) ==
    IF n = 0 THEN {<<>>}
    ELSE LET shorter == SeqsUpTo(S, n - 1)
         IN  shorter \cup {Append(s, x) : s \in {t \in shorter : Len(t) = n - 1}, x \in S}

\* the documents: what _extract_pdf_text_per_page yields for a path
Documents == SeqsUpTo(RawTexts, MaxPages)

\* an argument the caller leaves out
Omitted == "omitted"

\* the second positional argument test_store_pdf_embeddings passes
DocumentNames == {Omitted, "sample.pdf"}

\* the limit argument of search: left out (<<>>) or given (<<n>>)
LimitArgs == {<<>>, <<1>>, <<3>>}

\* what the store may answer to query_points: any ranking of hits
Responses == {<<>>, <<"hit1">>, <<"hit1", "hit2">>, <<"hit2", "hit1">>}

\* the failures a collaborator may raise
Errors == {"ConnectionError", "Timeout"}


(***************************************************************************)
(* The collaborators' answers and the values the methods build.            *)
(***************************************************************************)
\* lines 95-105: the dense model's embedding of a text, an opaque value
DenseEmbedding(t) == [model |-> "dense", of |-> t]

\* lines 107-117: the late interaction model's embedding of a text
LateInteractionEmbedding(t) == [model |-> "late-interaction", of |-> t]

\* lines 119-129: the BM25 model's sparse embedding of a text, one index and
\* one value per character position (parallel sequences)
SparseEmbedding(t) ==
    [indices |-> [i \in 1..Len(t) |-> i], values |-> [i \in 1..Len(t) |-> 1]]

\* size= of both VectorParams, lines 62 and 66
VectorSize == 384

\* limit= of the Prefetch, line 221
PrefetchLimit == 20

\* the default of search's limit parameter, line 189
DefaultLimit == 10

\* a faulty variant of lines 65-71: the multivector field is declared without its
\* multivector_config
CollectionSchemaNoComparator ==
    [vectors_config |->
        [dense |-> [name |-> "dense-vector", size |-> VectorSize,
                    distance |-> "COSINE", comparator |-> "none"],
         multi |-> [name |-> "output-token-embeddings", size |-> VectorSize,
                    distance |-> "COSINE", comparator |-> "none"]],
     sparse_vectors_config |-> {"sparse"}]

\* lines 60-73: the schema of the create_collection request
CollectionSchema ==
    [vectors_config |->
        [dense |-> [name |-> "dense-vector", size |-> VectorSize,
                    distance |-> "COSINE", comparator |-> "none"],
         multi |-> [name |-> "output-token-embeddings", size |-> VectorSize,
                    distance |-> "COSINE", comparator |-> "MAX_SIM"]],
     sparse_vectors_config |-> {"sparse"}]

\* a faulty variant of line 57: the collection is created whatever the store reports
CollectionMissingAlways(name, reported) == TRUE

\* line 57: self.collection_name not in collection_names
CollectionMissing(name, reported) == name \notin reported

\* lines 164-167: models.SparseVector(indices=..., values=...)
SparseVector(e) == [indices |-> e.indices, values |-> e.values]

\* lines 161-168: hybrid_vector
HybridVector(f) ==
    [dense |-> f.dense, multi |-> f.late, sparse |-> SparseVector(f.sparse)]

\* a faulty variant of line 172: the page number is the 0-based loop index
PageNumberZeroBased(page_num) == page_num

\* line 172: page_num + 1
PageNumber(page_num) == page_num + 1

\* lines 170-173: payload
Payload(f) == [text |-> f.clean, page_number |-> PageNumber(f.page_num)]

\* line 176: str(uuid.uuid4()), an id never generated before
Uuid4(n, f) == n + 1

\* lines 175-179: point
PointStruct(n, f) == [id |-> Uuid4(n, f), vector |-> HybridVector(f), payload |-> Payload(f)]

\* a faulty variant of lines 217-227: the rerank stage is given the fixed limit 10
QueryLimitFixed(f) == DefaultLimit

\* line 226: limit=limit
QueryLimit(f) == f.limit

\* lines 215-227: the query_points request
QueryRequest(f) ==
    [collection_name |-> f.collection_name,
     prefetch |-> <<[query |-> f.dense, using |-> "dense-vector", limit |-> PrefetchLimit]>>,
     query |-> f.late,
     using |-> "output-token-embeddings",
     limit |-> QueryLimit(f)]

\* line 229: return results
SearchResult(results) == results

\* line 189: limit: int = 10
LimitOf(arg) == IF arg = <<>> THEN DefaultLimit ELSE arg[1]

\* an entry of trace, and a request in pending: what was called, for which
\* page (0 outside the page loop), with which request body
Event(ev, page, body) == [ev |-> ev, page |-> page, body |-> body]

\* the locals of a method before it assigns them
NoEmbedding == [model |-> "none", of |-> <<>>]
NoSparse == [indices |-> <<>>, values |-> <<>>]
NoFrame ==
    [op |-> "none", collection_name |-> "none", document_name |-> Omitted,
     file |-> <<>>, texts |-> <<>>, page_num |-> 0, query |-> <<>>, limit |-> DefaultLimit,
     clean |-> <<>>, dense |-> NoEmbedding, late |-> NoEmbedding, sparse |-> NoSparse,
     reported |-> {}, results |-> <<>>, exc |-> "none"]

\* how a call ended
NoOutcome == [status |-> "running", value |-> <<>>, error |-> "none", raisedBy |-> "none"]
Returned(v) == [status |-> "returned", value |-> v, error |-> "none", raisedBy |-> "none"]

\* a faulty propagation: the failure is translated to a generic error
RaisedTranslated(e, by) ==
    [status |-> "raised", value |-> <<>>, error |-> "RuntimeError", raisedBy |-> by]

\* no try/except anywhere in lines 31-229: the exception leaves the method as raised
Raised(e, by) == [status |-> "raised", value |-> <<>>, error |-> e, raisedBy |-> by]


(***************************************************************************)
(* SpecClean: _clean_text as a function of its argument.                   *)
(***************************************************************************)
RagIdle ==
    /\ collections = {}
    /\ points = {}
    /\ instances = {}
    /\ pc = "idle"
    /\ frame = NoFrame
    /\ pending = {}
    /\ trace = <<>>
    /\ outcome = NoOutcome
    /\ createCalls = <<>>
    /\ nextId = 0
    /\ ops = 0

InitClean ==
    /\ text \in Strings(MaxLen) \cup SampleTexts
    /\ cleaned = <<>>
    /\ recleaned = <<>>
    /\ phase = "input"
    /\ RagIdle

\* a call _clean_text(text)
CleanCall ==
    /\ phase = "input"
    /\ cleaned' = clean_text(text)
    /\ phase' = "cleaned"
    /\ UNCHANGED <<text, recleaned, ragVars>>

\* a second call, on the value the first returned
CleanAgain ==
    /\ phase = "cleaned"
    /\ recleaned' = clean_text(cleaned)
    /\ phase' = "recleaned"
    /\ UNCHANGED <<text, cleaned, ragVars>>

NextClean == CleanCall \/ CleanAgain

SpecClean == InitClean /\ [][NextClean]_vars

(***************************************************************************)
(* Spec: the public operations, one step per collaborator request and per  *)
(* answer.  All calls are synchronous: the caller waits in pc for the      *)
(* answer to the request in pending.                                       *)
(***************************************************************************)
Init ==
    /\ text = <<>>
    /\ cleaned = <<>>
    /\ recleaned = <<>>
    /\ phase = "input"
    /\ collections \in SUBSET Names   \* collections persist across process runs
    /\ points = {}
    /\ instances = {}
    /\ pc = "idle"
    /\ frame = NoFrame
    /\ pending = {}
    /\ trace = <<>>
    /\ outcome = NoOutcome
    /\ createCalls = <<>>
    /\ nextId = 0
    /\ ops = 0

\* the page an event belongs to: 1-based inside the loop of lines 154-187
CurrentPage == IF frame.op = "store" THEN frame.page_num + 1 ELSE 0

\* the caller issues a request and waits for its answer
Issue(ev, body, wait) ==
    /\ pending' = {Event(ev, CurrentPage, body)}
    /\ trace' = Append(trace, Event(ev, CurrentPage, body))
    /\ pc' = wait

\* the running method returns v to the caller
Return(v) ==
    /\ pc' = "idle"
    /\ pending' = {}
    /\ outcome' = Returned(v)

\* a faulty statement order: the sparse embedding is taken before
\* the late interaction embedding
StepAfterSwapped(step, op) ==
    CASE step = "clean" -> "dense"
      [] step = "dense" -> "sparse"
      [] step = "sparse" -> "late"
      [] step = "late" -> IF op = "store" THEN "upsert" ELSE "query"

\* the statement order of lines 155-181 (store_pdf_embeddings) and 200-215 (search)
StepAfter(step, op) ==
    CASE step = "clean" -> "dense"
      [] step = "dense" -> "late"
      [] step = "late" -> "sparse"
      [] step = "sparse" -> IF op = "store" THEN "upsert" ELSE "query"

\* lines 31-47 and 53: BestRAG(url, api_key, name) up to the get_collections request
Construct(name) ==
    /\ pc = "idle"
    /\ ops < MaxOps
    /\ ops' = ops + 1
    /\ frame' = [NoFrame EXCEPT !.op = "init", !.collection_name = name]
    /\ pending' = {Event("get_collections", 0, <<>>)}
    /\ trace' = <<Event("get_collections", 0, <<>>)>>
    /\ pc' = "get_collections"
    /\ outcome' = NoOutcome
    /\ UNCHANGED <<collections, points, instances, createCalls, nextId, cleanVars>>

\* lines 53-58 and 76-77: the store answers get_collections; the collection
\* is requested when its name is not reported, and used as it is otherwise
GetCollectionsReturn ==
    /\ pc = "get_collections"
    /\ frame' = [frame EXCEPT !.reported = collections]
    /\ IF CollectionMissing(frame.collection_name, collections)
       THEN /\ Issue("create_collection",
                     [collection_name |-> frame.collection_name, schema |-> CollectionSchema],
                     "create_collection")
            /\ createCalls' = Append(createCalls,
                   [name |-> frame.collection_name, during |-> frame.op,
                    held |-> frame.collection_name \in collections, ok |-> FALSE])
            /\ UNCHANGED <<instances, outcome>>
       ELSE /\ Return(<<>>)
            /\ instances' = instances \cup {frame.collection_name}
            /\ UNCHANGED <<trace, createCalls>>
    /\ UNCHANGED <<collections, points, nextId, ops, cleanVars>>

\* lines 58-75 and 47: the store answers create_collection; __init__ returns
CreateCollectionReturn ==
    /\ pc = "create_collection"
    /\ collections' = collections \cup {frame.collection_name}
    /\ createCalls' = [createCalls EXCEPT ![Len(createCalls)].ok = TRUE]
    /\ instances' = instances \cup {frame.collection_name}
    /\ Return(<<>>)
    /\ UNCHANGED <<points, frame, trace, nextId, ops, cleanVars>>

\* line 145: def store_pdf_embeddings(self, pdf_path: str); a second
\* positional argument is a TypeError
AcceptsArguments(document_name) == document_name = Omitted

\* lines 145 and 152: store_pdf_embeddings(path[, document_name]) on an object
\* of collection name, up to the request to the PDF reader
StoreCall(name, doc, document_name) ==
    /\ pc = "idle"
    /\ ops < MaxOps
    /\ name \in instances
    /\ ops' = ops + 1
    /\ frame' = [NoFrame EXCEPT !.op = "store", !.collection_name = name,
                                !.document_name = document_name, !.file = doc]
    /\ IF AcceptsArguments(document_name)
       THEN /\ pending' = {Event("extract", 0, <<>>)}
            /\ trace' = <<Event("extract", 0, <<>>)>>
            /\ pc' = "extract"
            /\ outcome' = NoOutcome
       ELSE /\ pending' = {}
            /\ trace' = <<>>
            /\ pc' = "idle"
            /\ outcome' = Raised("TypeError", "store_pdf_embeddings")
    /\ UNCHANGED <<collections, points, instances, createCalls, nextId, cleanVars>>

\* lines 141-143 and 152-154: the reader yields the pages; the loop starts
ExtractReturn ==
    /\ pc = "extract"
    /\ frame' = [frame EXCEPT !.texts = frame.file, !.page_num = 0]
    /\ IF frame.file = <<>>
       THEN Return(<<>>)
       ELSE /\ pc' = "clean"
            /\ pending' = {}
            /\ UNCHANGED outcome
    /\ UNCHANGED <<collections, points, instances, trace, createCalls, nextId, ops, cleanVars>>

\* line 189 and its default: search(query[, limit]) on an object of collection name
SearchCall(name, query, limitArg) ==
    /\ pc = "idle"
    /\ ops < MaxOps
    /\ name \in instances
    /\ ops' = ops + 1
    /\ frame' = [NoFrame EXCEPT !.op = "search", !.collection_name = name,
                                !.query = query, !.limit = LimitOf(limitArg)]
    /\ pending' = {}
    /\ trace' = <<>>
    /\ pc' = "clean"
    /\ outcome' = NoOutcome
    /\ UNCHANGED <<collections, points, instances, createCalls, nextId, cleanVars>>

\* line 155 (the page's text) and line 200 (the query)
CleanStep ==
    /\ pc = "clean"
    /\ frame' = [frame EXCEPT !.clean =
           clean_text(IF frame.op = "store" THEN frame.texts[frame.page_num + 1]
                                            ELSE frame.query)]
    /\ trace' = Append(trace, Event("clean", CurrentPage, <<>>))
    /\ pc' = StepAfter("clean", frame.op)
    /\ UNCHANGED <<collections, points, instances, pending, outcome, createCalls,
                   nextId, ops, cleanVars>>

\* lines 156 and 201, calling line 105
DenseCall ==
    /\ pc = "dense"
    /\ Issue("dense", frame.clean, "dense_wait")
    /\ UNCHANGED <<collections, points, instances, frame, outcome, createCalls,
                   nextId, ops, cleanVars>>

DenseReturn ==
    /\ pc = "dense_wait"
    /\ frame' = [frame EXCEPT !.dense = DenseEmbedding(frame.clean)]
    /\ pending' = {}
    /\ pc' = StepAfter("dense", frame.op)
    /\ UNCHANGED <<collections, points, instances, trace, outcome, createCalls,
                   nextId, ops, cleanVars>>

\* lines 157-158 and 202-203, calling line 117
LateInteractionCall ==
    /\ pc = "late"
    /\ Issue("late", frame.clean, "late_wait")
    /\ UNCHANGED <<collections, points, instances, frame, outcome, createCalls,
                   nextId, ops, cleanVars>>

LateInteractionReturn ==
    /\ pc = "late_wait"
    /\ frame' = [frame EXCEPT !.late = LateInteractionEmbedding(frame.clean)]
    /\ pending' = {}
    /\ pc' = StepAfter("late", frame.op)
    /\ UNCHANGED <<collections, points, instances, trace, outcome, createCalls,
                   nextId, ops, cleanVars>>

\* lines 159 and 204, calling line 129
SparseCall ==
    /\ pc = "sparse"
    /\ Issue("sparse", frame.clean, "sparse_wait")
    /\ UNCHANGED <<collections, points, instances, frame, outcome, createCalls,
                   nextId, ops, cleanVars>>

SparseReturn ==
    /\ pc = "sparse_wait"
    /\ frame' = [frame EXCEPT !.sparse = SparseEmbedding(frame.clean)]
    /\ pending' = {}
    /\ pc' = StepAfter("sparse", frame.op)
    /\ UNCHANGED <<collections, points, instances, trace, outcome, createCalls,
                   nextId, ops, cleanVars>>

\* lines 161-184: the point of the page is assembled and sent, alone
UpsertCall ==
    /\ pc = "upsert"
    /\ Issue("upsert",
             [collection_name |-> frame.collection_name,
              points |-> <<PointStruct(nextId, frame)>>],
             "upsert_wait")
    /\ nextId' = nextId + 1
    /\ UNCHANGED <<collections, points, instances, frame, outcome, createCalls,
                   ops, cleanVars>>

\* lines 181-187 and 154: the store persists the points of the request; the
\* loop goes to the next page, or the method returns None
UpsertReturn ==
    /\ pc = "upsert_wait"
    /\ points' = points \cup
           {[collection |-> r.body.collection_name, point |-> r.body.points[i]] :
                r \in pending, i \in 1..1}
    /\ IF frame.page_num + 1 < Len(frame.texts)
       THEN /\ frame' = [frame EXCEPT !.page_num = frame.page_num + 1]
            /\ pc' = "clean"
            /\ pending' = {}
            /\ UNCHANGED outcome
       ELSE /\ Return(<<>>)
            /\ UNCHANGED frame
    /\ UNCHANGED <<collections, instances, trace, createCalls, nextId, ops, cleanVars>>

\* lines 206-227: the one query_points request of a search
QueryCall ==
    /\ pc = "query"
    /\ Issue("query_points", QueryRequest(frame), "query_wait")
    /\ UNCHANGED <<collections, points, instances, frame, outcome, createCalls,
                   nextId, ops, cleanVars>>

\* lines 215 and 229: the store answers with a ranking of at most limit hits
QueryReturn(response) ==
    /\ pc = "query_wait"
    /\ Len(response) <= frame.limit
    /\ frame' = [frame EXCEPT !.results = response]
    /\ Return(SearchResult(response))
    /\ UNCHANGED <<collections, points, instances, trace, createCalls, nextId, ops, cleanVars>>

\* the collaborator answers the pending request with a failure e; no
\* statement of lines 31-229 catches it, so the running method ends with it
CollaboratorRaises(e) ==
    /\ pending # {}
    /\ \E r \in pending :
          /\ frame' = [frame EXCEPT !.exc = e]
          /\ outcome' = Raised(e, r.ev)
    /\ pc' = "idle"
    /\ pending' = {}
    /\ UNCHANGED <<collections, points, instances, trace, createCalls, nextId, ops, cleanVars>>

Next ==
    \/ \E name \in Names : Construct(name)
    \/ GetCollectionsReturn
    \/ CreateCollectionReturn
    \/ \E name \in Names, doc \in Documents, dn \in DocumentNames : StoreCall(name, doc, dn)
    \/ ExtractReturn
    \/ \E name \in Names, q \in RawTexts, l \in LimitArgs : SearchCall(name, q, l)
    \/ CleanStep
    \/ DenseCall
    \/ DenseReturn
    \/ LateInteractionCall
    \/ LateInteractionReturn
    \/ SparseCall
    \/ SparseReturn
    \/ UpsertCall
    \/ UpsertReturn
    \/ QueryCall
    \/ \E response \in Responses : QueryReturn(response)
    \/ \E e \in Errors : CollaboratorRaises(e)

Spec == Init /\ [][Next]_vars


(***************************************************************************)
(* Claims about _clean_text, checked under SpecClean.                      *)
(***************************************************************************)
\* the characters of a string
Chars(s) == {s[i] : i \in 1..Len(s)}

\* i is where a maximal run of digits of s starts
RunStart(s, i) == IsDigit(s[i]) /\ (i = 1 \/ ~IsDigit(s[i - 1]))

\* i is at the start of s or right after a newline
AtLineBreak(s, i) == i = 1 \/ s[i - 1] = "\n"

\* C6, as stated: clean_text(clean_text(s)) = clean_text(s) for every s.
\* Refuted by s = "a1. ": the line break that line 92 puts before "1." is
\* turned into " \n" by the second call.
C6_Idempotent == phase = "recleaned" => recleaned = cleaned

\* C6, amended: clean_text(clean_text(s)) = clean_text(s) for every s whose
\* cleaned form clean_text(s) holds no newline character.
C6_IdempotentWithoutLineBreak ==
    (phase = "recleaned" /\ "\n" \notin Chars(cleaned)) => recleaned = cleaned

\* C6 witness: an input that line 92 does rewrite (a numbered item at its
\* start, whose line break line 93 strips), cleaned a second time
C6_Witness ==
    /\ phase = "recleaned"
    /\ "\n" \notin Chars(cleaned)
    /\ cleaned # <<>>
    /\ MatchEnd(cleaned, 1) # 0
    /\ text # cleaned
    /\ recleaned = cleaned

\* C7: the output of clean_text holds no underscore and no two consecutive
\* spaces, and neither starts nor ends with whitespace; the example of
\* test_clean_text yields the value the test expects (underscores deleted
\* with no separator, the newline and the run of spaces each one space).
C7_NoUnderscoreNoDoubleSpace ==
    phase \in {"cleaned", "recleaned"} =>
        /\ "_" \notin Chars(cleaned)
        /\ \A i \in 1..(Len(cleaned) - 1) : ~(cleaned[i] = " " /\ cleaned[i + 1] = " ")
        /\ cleaned # <<>> => (~IsSpace(cleaned[1]) /\ ~IsSpace(cleaned[Len(cleaned)]))
        /\ text = TestRawText => cleaned = TestCleanedText

\* C7 witness: the test's example has been cleaned
C7_Witness == phase = "cleaned" /\ text = TestRawText /\ cleaned = TestCleanedText

\* C8, as stated: in the output every maximal run of digits followed by '.'
\* and a whitespace character starts the output or follows a newline.
\* Refuted by "Section 1.1. Intro": the output is "Section 1.\n1. Intro",
\* where the first "1." is followed by the newline put before the second.
C8_NumberedItemsOnLineBreak ==
    phase \in {"cleaned", "recleaned"} =>
        \A i \in 1..Len(cleaned) :
            (RunStart(cleaned, i) /\ MatchEnd(cleaned, i) # 0) => AtLineBreak(cleaned, i)

\* C8, amended: in the output every maximal run of digits followed by '.'
\* and a space character starts the output or follows a newline.
C8_NumberedItemsBeforeSpaceOnLineBreak ==
    phase \in {"cleaned", "recleaned"} =>
        \A i \in 1..Len(cleaned) :
            (/\ RunStart(cleaned, i)
             /\ MatchEnd(cleaned, i) # 0
             /\ cleaned[MatchEnd(cleaned, i)] = " ") => AtLineBreak(cleaned, i)

\* C8 witness: the spec's numbered list, both of whose items follow a newline
C8_Witness ==
    /\ phase = "cleaned"
    /\ text = NumberedListText
    /\ \E i, j \in 2..Len(cleaned) :
          /\ i < j
          /\ cleaned[i] = "1" /\ cleaned[i - 1] = "\n" /\ MatchEnd(cleaned, i) # 0
          /\ cleaned[j] = "2" /\ cleaned[j - 1] = "\n" /\ MatchEnd(cleaned, j) # 0


(***************************************************************************)
(* Claims about the public operations, checked under Spec.                 *)
(***************************************************************************)
\* the events ev of the running (or last) call, in order
EventsOf(ev) == SelectSeq(trace, LAMBDA e : e.ev = ev)

\* the running (or last) call is of method op
Running(op) == frame.op = op

\* the last call was of method op and has ended
Ended(op) == frame.op = op /\ pc = "idle"

\* the embedding requests
EmbeddingEvents == {"dense", "late", "sparse"}

\* C1: a store_pdf_embeddings call on an N-page document in which no
\* collaborator fails issues exactly N upsert requests of one point each,
\* the k-th with page_number k, with pairwise distinct ids and with sparse
\* indices and values of equal length.
C1_OneUpsertPerPage ==
    (Ended("store") /\ outcome.status = "returned") =>
        LET U == EventsOf("upsert")
        IN  /\ Len(U) = Len(frame.file)
            /\ \A k \in 1..Len(U) :
                  /\ Len(U[k].body.points) = 1
                  /\ U[k].body.points[1].payload.page_number = k
                  /\ Len(U[k].body.points[1].vector.sparse.indices)
                        = Len(U[k].body.points[1].vector.sparse.values)
            /\ \A j, k \in 1..Len(U) :
                  j # k => U[j].body.points[1].id # U[k].body.points[1].id

\* C1 witness: a three-page document, two of whose pages have the same
\* text, has been ingested
C1_Witness ==
    /\ Ended("store")
    /\ outcome.status = "returned"
    /\ Len(frame.file) = 3
    /\ frame.file[1] = frame.file[3]
    /\ Len(EventsOf("upsert")) = 3
    /\ Len(frame.sparse.indices) > 0

\* the points the upsert requests k = 1..n of the call carried, as the store holds them
Persisted(n) ==
    \A k \in 1..n :
        [collection |-> frame.collection_name,
         point |-> EventsOf("upsert")[k].body.points[1]] \in points

\* C2: when the upsert request of page k fails, the call has issued exactly
\* k upsert requests and no request for a later page, the points of pages
\* 1..k-1 are in the store, and the call ends with that failure, unchanged,
\* instead of returning; when an embedding request of page k fails, exactly
\* k-1 upsert requests have been issued and the same holds.
C2_StopsAtFailingPage ==
    (Running("store") /\ outcome.status = "raised"
        /\ outcome.raisedBy \in EmbeddingEvents \cup {"upsert"}) =>
        LET k == frame.page_num + 1
            sent == IF outcome.raisedBy = "upsert" THEN k ELSE k - 1
        IN  /\ pc = "idle"
            /\ pending = {}
            /\ Len(EventsOf("upsert")) = sent
            /\ \A i \in 1..Len(trace) : trace[i].page <= k
            /\ trace[Len(trace)].ev = outcome.raisedBy
            /\ trace[Len(trace)].page = k
            /\ Persisted(k - 1)
            /\ outcome.error = frame.exc
            /\ outcome.error \in Errors

\* C2 witness: the upsert of page 2 of a three-page document failed, after
\* two upsert requests, with page 1 in the store
C2_Witness ==
    /\ Running("store")
    /\ outcome.status = "raised"
    /\ outcome.raisedBy = "upsert"
    /\ Len(frame.file) = 3
    /\ frame.page_num = 1
    /\ Len(EventsOf("upsert")) = 2
    /\ Persisted(1)

\* C3: a construction lists the collections exactly once; once the list is
\* reported, it has issued exactly one create_collection request, for its
\* name, with a dense field of size 384 and cosine distance, a multivector
\* field with cosine distance and the MAX_SIM comparator and one sparse
\* field, when the name is not reported, and none when it is.
C3_CreateOrUse ==
    Running("init") =>
        LET C == EventsOf("create_collection")
            listed == pc # "get_collections" /\ outcome.raisedBy # "get_collections"
        IN  /\ Len(EventsOf("get_collections")) = 1
            /\ (listed /\ frame.collection_name \notin frame.reported) =>
                  /\ Len(C) = 1
                  /\ C[1].body.collection_name = frame.collection_name
                  /\ C[1].body.schema.vectors_config.dense.size = 384
                  /\ C[1].body.schema.vectors_config.dense.distance = "COSINE"
                  /\ C[1].body.schema.vectors_config.multi.distance = "COSINE"
                  /\ C[1].body.schema.vectors_config.multi.comparator = "MAX_SIM"
                  /\ Cardinality(C[1].body.schema.sparse_vectors_config) = 1
            /\ (listed /\ frame.collection_name \in frame.reported) => Len(C) = 0
            /\ ~listed => Len(C) = 0

\* C3 witness: a construction that found its collection, which an earlier
\* construction created, and returned without a create_collection request
C3_Witness ==
    /\ Ended("init")
    /\ outcome.status = "returned"
    /\ frame.collection_name \in frame.reported
    /\ EventsOf("create_collection") = <<>>
    /\ \E i \in 1..Len(createCalls) :
          createCalls[i].name = frame.collection_name /\ createCalls[i].ok

\* the query_points request q is the one search is to make
QueryShape(q) ==
    /\ DOMAIN q.body = {"collection_name", "prefetch", "query", "using", "limit"}
    /\ q.body.collection_name = frame.collection_name
    /\ Len(q.body.prefetch) = 1
    /\ q.body.prefetch[1].using = "dense-vector"
    /\ q.body.prefetch[1].limit = 20
    /\ q.body.prefetch[1].query = DenseEmbedding(clean_text(frame.query))
    /\ q.body.using = "output-token-embeddings"
    /\ q.body.query = LateInteractionEmbedding(clean_text(frame.query))
    /\ q.body.limit = frame.limit
    /\ Len(EventsOf("sparse")) = 1

C5_DocumentNameInPayload ==
    Running("store") =>
        /\ (pc = "idle" /\ frame.document_name # Omitted) => outcome.error # "TypeError"
        /\ \A i \in 1..Len(trace) :
              trace[i].ev = "upsert" =>
                 DOMAIN trace[i].body.points[1].payload
                    = {"text", "page_number", "source_document"}

\* the order of the events of page k in store_pdf_embeddings
PageSteps == <<"clean", "dense", "late", "sparse", "upsert">>

\* C9: every store_pdf_embeddings call reads the pages and then, page after
\* page, cleans, requests the dense, the late interaction and the sparse
\* embedding and upserts, in that order; the request outstanding, if any, is
\* the last event (so upsert(k) is answered before any step of page k+1),
\* never more than one request is outstanding, and every upsert request
\* carries the one point of its own page.
C9_SequentialPages ==
    /\ Cardinality(pending) <= 1
    /\ Running("store") =>
          /\ \A i \in 1..Len(trace) :
                IF i = 1 THEN trace[i].ev = "extract"
                ELSE /\ trace[i].ev = PageSteps[((i - 2) % 5) + 1]
                     /\ trace[i].page = ((i - 2) \div 5) + 1
          /\ \A r \in pending : trace # <<>> /\ r = trace[Len(trace)]
          /\ \A i \in 1..Len(trace) :
                trace[i].ev = "upsert" =>
                   /\ Len(trace[i].body.points) = 1
                   /\ trace[i].body.points[1].payload.page_number = trace[i].page

\* C9 witness: the dense embedding of page 2 is outstanding, after the five
\* steps of page 1
C9_Witness ==
    /\ Running("store")
    /\ Len(trace) = 8
    /\ pending = {trace[8]}
    /\ trace[8].ev = "dense"
    /\ trace[8].page = 2
    /\ trace[6].ev = "upsert"

\* the create_collection requests ever issued for a name
CreatesOf(name) == SelectSeq(createCalls, LAMBDA c : c.name = name)

\* C10, as stated: at most one create_collection request is ever issued for
\* a name, each during a construction; store_pdf_embeddings and search issue
\* none, and search issues no upsert.  Refuted by a construction whose
\* create_collection request fails, followed by a construction with the
\* same name: the store still does not report the name, and a second
\* request is issued.
C10_CreatedOnce ==
    /\ \A name \in Names : Len(CreatesOf(name)) <= 1
    /\ \A i \in 1..Len(createCalls) : createCalls[i].during = "init"
    /\ (Running("store") \/ Running("search")) => EventsOf("create_collection") = <<>>
    /\ Running("search") => EventsOf("upsert") = <<>>

\* C10, amended: at most one create_collection request for a name succeeds,
\* and none is issued for a name the store holds (none once one succeeded);
\* each is issued during a construction; store_pdf_embeddings and search
\* issue none, and search issues no upsert.
C10_CreatedOnceSuccessfully ==
    /\ \A name \in Names :
          Len(SelectSeq(CreatesOf(name), LAMBDA c : c.ok)) <= 1
    /\ \A i \in 1..Len(createCalls) :
          /\ createCalls[i].during = "init"
          /\ ~createCalls[i].held
          /\ \A j \in 1..(i - 1) :
                createCalls[j].name = createCalls[i].name => ~createCalls[j].ok
    /\ (Running("store") \/ Running("search")) => EventsOf("create_collection") = <<>>
    /\ Running("search") => EventsOf("upsert") = <<>>

\* C10 witness: a second construction with a name whose collection the
\* first created has returned, with one create_collection request in all
C10_Witness ==
    /\ ops = 2
    /\ Ended("init")
    /\ outcome.status = "returned"
    /\ Len(createCalls) = 1
    /\ createCalls[1].ok
    /\ createCalls[1].name = frame.collection_name
    /\ EventsOf("create_collection") = <<>>

=============================================================================
